---- MODULE Spec2Model ----
(***************************************************************************)
(* Model of the OPC-N3 protocol driver (src/peripherals/OPCN3.py): the     *)
(* class OPCN3 with initConnection, fanPower, laserPower, getData and      *)
(* formatData, run against a serial channel whose reads are chosen by the  *)
(* device.  Every channel call (write, read) and every time.sleep of the   *)
(* code is one step of the model; pc is the position of the driver inside  *)
(* the method that is running.  Times are in microseconds.  The decoding   *)
(* functions are also run on their own (SpecFunctions), the driver on a    *)
(* channel that can raise (SpecChannelErrors), and save_to_file of         *)
(* src/main.py on the csv file of the day (SpecSave).                      *)
(***************************************************************************)
EXTENDS Integers, Sequences, FiniteSets, TLC

(***************************************************************************)
(* Bounds of the model (not program constants).                            *)
(***************************************************************************)
\* getData's loop is not bounded by the code when the device is not ready:
\* the model stops starting new attempts after MaxAttempts of them.
MaxAttempts == 22
\* fanPower / laserPower poll for ever: the model allows MaxCooldowns cooldowns.
MaxCooldowns == 1
\* Number of different histogram payload contents the device may send.
MaxSeed == 2
\* Rows the model lets save_to_file write to one csv file.
MaxRows == 3
\* Hours of clock time the scheduling functions are called on.
MaxHours == 2

(***************************************************************************)
(* SPIBytes and the literals of the driver.                                *)
(***************************************************************************)
adUSBAdapter == 90
adOPC == 97
pCommand == 3
fanOff == 2
fanOn == 3
laserOff == 6
laserOn == 7
reqHist == 48
\* the 'any value' byte clocked out for each histogram byte
anyValue == 69
\* self.wait = 1e-06 s
wait == 1
\* time.sleep(1) in initConnection
bootSleep == 1000000
\* time.sleep(2) after a peripheral command
settleSleep == 2000000
\* time.sleep(3): "Reset the SPI buffer"
cooldownSleep == 3000000
\* loopCount > 20
loopCeiling == 20
\* range(0, 86), len(opcHistBytes) == 86
histLen == 86
\* self.opc.read(size=172)
rawLen == 172
\* range(0, 24)
nBins == 24

(***************************************************************************)
(* Python values.                                                          *)
(***************************************************************************)
None == [isNone |-> TRUE]
Some(d) == [isNone |-> FALSE, d |-> d]

\* Python's `a or b` on bytes objects: a when a is non-empty, otherwise b.
PyOr(a, b) == IF Len(a) > 0 THEN a ELSE b

\* b"\xff\xf3" or b"xf3\xff": the second literal of fanPower lacks its first
\* backslash, so it is the four bytes 'x' 'f' '3' 0xff.
fanReadyOperand == PyOr(<<255, 243>>, <<120, 102, 51, 255>>)
\* b"\xff\xf3" or b"\xf3\xff" in laserPower and getData
readyOperand == PyOr(<<255, 243>>, <<243, 255>>)

\* opcReturn == (b"\xff\xf3" or ...) in the method m
IsReadyAny(m, r) == TRUE
IsReady(m, r) == IF m = "fanPower" THEN r = fanReadyOperand ELSE r = readyOperand

\* loopCount > 20
CeilingExceededEarly(n) == n >= loopCeiling
CeilingExceeded(n) == n > loopCeiling

\* fanStatus / laserStatus: the byte that follows adOPC in the command
PeripheralStatusSwapped(m, s) ==
  IF m = "fanPower" THEN (IF s THEN fanOff ELSE fanOn)
  ELSE (IF s THEN laserOff ELSE laserOn)
PeripheralStatus(m, s) ==
  IF m = "fanPower" THEN (IF s THEN fanOn ELSE fanOff)
  ELSE (IF s THEN laserOn ELSE laserOff)

(***************************************************************************)
(* The channel: events seen on it, and what the device may answer.         *)
(***************************************************************************)
NoEv == <<"none", <<>>, 0>>
\* self.opc.write(bytearray(b))
WriteEv(b) == <<"write", b, Len(b)>>
\* self.opc.read(n) that returned got
ReadEv(n, got) == <<"read", got, n>>
\* time.sleep(d)
SleepEv(d) == <<"sleep", <<>>, d>>
\* self.opc.write(...) or self.opc.read(...) that raised
ErrEv == <<"error", <<>>, 0>>

\* Answers to a 2-byte read: the ready pattern, its reverse, a busy
\* pattern, and short reads of 1 and 0 bytes.
Replies == { <<255, 243>>, <<243, 255>>, <<49, 243>>, <<255>>, <<>> }
\* Answers to the reads whose result the driver drops: nothing, or n bytes.
Unchecked(n) == { <<>>, [i \in 1..n |-> 255], [i \in 1..n |-> 0] }

VARIABLES
  pc,               \* position of the driver; "idle" between calls
  op,               \* the method running, or the last one that returned
  caller,           \* who called initConnection: "main" or "getData"
  status,           \* argument of fanPower / laserPower (FALSE in other methods)
  loopCount,        \* local of fanPower / laserPower / getData
  opcReturn,        \* local: the answer to the last probe
  histByte,         \* local of getData: index of the filler loop
  opcHistBytesRaw,  \* local of getData: the wire frame read
  isFanOn, isLaserOn, latestData, config,   \* attributes of OPCN3
  lastEv,           \* the last channel call or sleep performed
  nReq,             \* probes / histogram requests written in this call
  nCmd,             \* on/off commands written in this call
  nFill,            \* filler probes written in this attempt
  nFrame,           \* payload reads (read(size=172)) in this attempt
  nCool,            \* cooldown sleeps in this call
  nInit,            \* runs of initConnection completed in this call
  allNotReady,      \* every attempt of this getData call so far was not ready
  prevData,         \* latestData when the running call started
  decodedFrom,      \* the opcHistBytes latestData was built from (<<>> for None)
  exc,              \* the exception the last call raised, or "none"
  probe,            \* a pure function called on its own: its input and result
  file,             \* the csv file of the day, as save_to_file sees it
  opcData           \* the formatted data last passed to save_to_file

locals == <<status, loopCount, opcReturn, histByte, opcHistBytesRaw>>
attrs == <<isFanOn, isLaserOn, latestData, config>>
counters == <<nReq, nCmd, nFill, nFrame, nCool, nInit, allNotReady>>
driver == <<pc, op, caller, locals, attrs, lastEv, counters, prevData, decodedFrom, exc>>
\* what lies outside the driver object
aux == <<probe, file, opcData>>
vars == <<driver, aux>>

Peripherals == {"fanPower", "laserPower"}

\* no function has been called on its own
NoProbe == [fn |-> "none"]
\* open(fileName, "r+") raises FileNotFoundError
NoFile == [exists |-> FALSE]
\* save_to_file has not been called
NoData == [passed |-> FALSE]

\* (a constructor that takes the peripherals to be off until commanded)
InitPeripheralsOff ==
  /\ pc = "idle" /\ op = "none" /\ caller = "main"
  /\ status = FALSE /\ loopCount = 0 /\ opcReturn = <<>>
  /\ histByte = 0 /\ opcHistBytesRaw = <<>>
  /\ isFanOn = FALSE /\ isLaserOn = FALSE /\ latestData = None
  /\ config \in [UseBinData : BOOLEAN]
  /\ lastEv = NoEv
  /\ nReq = 0 /\ nCmd = 0 /\ nFill = 0 /\ nFrame = 0 /\ nCool = 0 /\ nInit = 0
  /\ allNotReady = TRUE
  /\ prevData = None
  /\ decodedFrom = <<>>
  /\ exc = "none"
  /\ probe = NoProbe
  /\ file = NoFile
  /\ opcData = NoData

\* OPCN3.__init__: no channel call is made.
Init ==
  /\ pc = "idle" /\ op = "none" /\ caller = "main"
  /\ status = FALSE /\ loopCount = 0 /\ opcReturn = <<>>
  /\ histByte = 0 /\ opcHistBytesRaw = <<>>
  /\ isFanOn = TRUE /\ isLaserOn = TRUE /\ latestData = None
  /\ config \in [UseBinData : BOOLEAN]
  /\ lastEv = NoEv
  /\ nReq = 0 /\ nCmd = 0 /\ nFill = 0 /\ nFrame = 0 /\ nCool = 0 /\ nInit = 0
  /\ allNotReady = TRUE
  /\ prevData = None
  /\ decodedFrom = <<>>
  /\ exc = "none"
  /\ probe = NoProbe
  /\ file = NoFile
  /\ opcData = NoData

\* A method is entered: its locals and the per-call counters start afresh.
EnterLocals(m) ==
  /\ pc = "idle"
  /\ op' = m
  /\ loopCount' = 0 /\ opcReturn' = <<>> /\ histByte' = 0 /\ opcHistBytesRaw' = <<>>
  /\ nReq' = 0 /\ nCmd' = 0 /\ nFill' = 0 /\ nFrame' = 0 /\ nCool' = 0 /\ nInit' = 0
  /\ allNotReady' = TRUE
  /\ prevData' = latestData
  /\ lastEv' = NoEv
  /\ UNCHANGED aux

\* ... and no exception is pending
Enter(m) == EnterLocals(m) /\ exc' = "none"

(***************************************************************************)
(* initConnection                                                          *)
(***************************************************************************)
\* The writes of initConnection, in order.
InitWrites == << <<adUSBAdapter, 1>>, <<adUSBAdapter, 3>>, <<adUSBAdapter, 2, 146, 7>> >>
\* The sizes of its reads, in order.
InitReads == <<3, 9, 2>>

\* main calls opc.initConnection()
InitConnectionCall ==
  /\ Enter("initConnection")
  /\ caller' = "main"
  /\ pc' = "ic_boot"
  /\ status' = FALSE
  /\ UNCHANGED <<attrs, decodedFrom>>

\* time.sleep(1)
InitBoot ==
  /\ pc = "ic_boot"
  /\ lastEv' = SleepEv(bootSleep)
  /\ pc' = "ic_w1"
  /\ UNCHANGED <<op, caller, locals, attrs, counters, prevData, decodedFrom, exc, aux>>

\* self.opc.write(...) number k
InitWrite(k) ==
  /\ pc = <<"ic_w1", "ic_w2", "ic_w3">>[k]
  /\ lastEv' = WriteEv(InitWrites[k])
  /\ pc' = <<"ic_r1", "ic_r2", "ic_r3">>[k]
  /\ UNCHANGED <<op, caller, locals, attrs, counters, prevData, decodedFrom, exc, aux>>

\* (a driver that writes its command again when the answer is empty)
InitReadRetried(k) ==
  /\ pc = <<"ic_r1", "ic_r2", "ic_r3">>[k]
  /\ \E got \in Unchecked(InitReads[k]) :
       /\ lastEv' = ReadEv(InitReads[k], got)
       /\ pc' = IF got = <<>> THEN <<"ic_w1", "ic_w2", "ic_w3">>[k]
                ELSE <<"ic_s1", "ic_s2", "ic_s3">>[k]
  /\ UNCHANGED <<op, caller, locals, attrs, counters, prevData, decodedFrom, exc, aux>>

\* self.opc.read(...) number k: the result is dropped
InitRead(k) ==
  /\ pc = <<"ic_r1", "ic_r2", "ic_r3">>[k]
  /\ \E got \in Unchecked(InitReads[k]) : lastEv' = ReadEv(InitReads[k], got)
  /\ pc' = <<"ic_s1", "ic_s2", "ic_s3">>[k]
  /\ UNCHANGED <<op, caller, locals, attrs, counters, prevData, decodedFrom, exc, aux>>

\* time.sleep(self.wait) number k; after the third one the method returns
InitWait(k) ==
  /\ pc = <<"ic_s1", "ic_s2", "ic_s3">>[k]
  /\ lastEv' = SleepEv(wait)
  /\ pc' = IF k < 3 THEN <<"ic_w2", "ic_w3">>[k]
           ELSE IF caller = "getData" THEN "g_none" ELSE "idle"
  /\ nInit' = IF k = 3 THEN nInit + 1 ELSE nInit
  /\ UNCHANGED <<op, caller, locals, attrs, nReq, nCmd, nFill, nFrame, nCool,
                 allNotReady, prevData, decodedFrom, exc, aux>>

(***************************************************************************)
(* fanPower and laserPower                                                 *)
(***************************************************************************)
\* fanPower(s) / laserPower(s) is called: loopCount = 0
PeripheralCall(m, s) ==
  /\ Enter(m)
  /\ status' = s
  /\ pc' = "p_top"
  /\ UNCHANGED <<caller, attrs, decodedFrom>>

\* loopCount += 1; self.opc.write(bytearray([adOPC, pCommand]))
PeripheralProbe ==
  /\ pc = "p_top"
  /\ loopCount' = loopCount + 1
  /\ lastEv' = WriteEv(<<adOPC, pCommand>>)
  /\ nReq' = nReq + 1
  /\ pc' = "p_read"
  /\ UNCHANGED <<op, caller, status, opcReturn, histByte, opcHistBytesRaw, attrs,
                 nCmd, nFill, nFrame, nCool, nInit, allNotReady, prevData, decodedFrom, exc, aux>>

\* opcReturn = self.opc.read(2)
PeripheralRead ==
  /\ pc = "p_read"
  /\ \E r \in Replies : opcReturn' = r /\ lastEv' = ReadEv(2, r)
  /\ pc' = "p_check"
  /\ UNCHANGED <<op, caller, status, loopCount, histByte, opcHistBytesRaw, attrs,
                 counters, prevData, decodedFrom, exc, aux>>

\* if opcReturn == (...): time.sleep(self.wait)
PeripheralReady ==
  /\ pc = "p_check"
  /\ IsReady(op, opcReturn)
  /\ lastEv' = SleepEv(wait)
  /\ pc' = "p_cmd"
  /\ UNCHANGED <<op, caller, locals, attrs, counters, prevData, decodedFrom, exc, aux>>

\* (a driver that gives up at the ceiling, as getData does)
PeripheralGiveUp ==
  /\ pc = "p_check"
  /\ ~IsReady(op, opcReturn)
  /\ CeilingExceeded(loopCount)
  /\ nCool < MaxCooldowns
  /\ lastEv' = SleepEv(cooldownSleep)
  /\ nCool' = nCool + 1
  /\ pc' = "idle"
  /\ UNCHANGED <<op, caller, locals, attrs, nReq, nCmd, nFill, nFrame, nInit,
                 allNotReady, prevData, decodedFrom, exc, aux>>

\* elif loopCount > 20: time.sleep(3); loopCount = 0
PeripheralCooldown ==
  /\ pc = "p_check"
  /\ ~IsReady(op, opcReturn)
  /\ CeilingExceeded(loopCount)
  /\ nCool < MaxCooldowns
  /\ lastEv' = SleepEv(cooldownSleep)
  /\ loopCount' = 0
  /\ nCool' = nCool + 1
  /\ pc' = "p_top"
  /\ UNCHANGED <<op, caller, status, opcReturn, histByte, opcHistBytesRaw, attrs,
                 nReq, nCmd, nFill, nFrame, nInit, allNotReady, prevData, decodedFrom, exc, aux>>

\* else: time.sleep(self.wait * 10)
PeripheralRetry ==
  /\ pc = "p_check"
  /\ ~IsReady(op, opcReturn)
  /\ ~CeilingExceeded(loopCount)
  /\ lastEv' = SleepEv(wait * 10)
  /\ pc' = "p_top"
  /\ UNCHANGED <<op, caller, locals, attrs, counters, prevData, decodedFrom, exc, aux>>

\* self.opc.write(bytearray([adOPC, fanStatus]))
PeripheralCommand ==
  /\ pc = "p_cmd"
  /\ lastEv' = WriteEv(<<adOPC, PeripheralStatus(op, status)>>)
  /\ nCmd' = nCmd + 1
  /\ pc' = "p_ack"
  /\ UNCHANGED <<op, caller, locals, attrs, nReq, nFill, nFrame, nCool, nInit,
                 allNotReady, prevData, decodedFrom, exc, aux>>

\* (a driver that polls again when the acknowledgement is empty)
PeripheralAckChecked ==
  /\ pc = "p_ack"
  /\ \E got \in Unchecked(2) :
       /\ lastEv' = ReadEv(2, got)
       /\ pc' = IF got = <<>> THEN "p_top" ELSE "p_settle"
  /\ UNCHANGED <<op, caller, locals, attrs, counters, prevData, decodedFrom, exc, aux>>

\* self.opc.read(2): the result is dropped
PeripheralAck ==
  /\ pc = "p_ack"
  /\ \E got \in Unchecked(2) : lastEv' = ReadEv(2, got)
  /\ pc' = "p_settle"
  /\ UNCHANGED <<op, caller, locals, attrs, counters, prevData, decodedFrom, exc, aux>>

\* time.sleep(2)
PeripheralSettle ==
  /\ pc = "p_settle"
  /\ lastEv' = SleepEv(settleSleep)
  /\ pc' = "p_set"
  /\ UNCHANGED <<op, caller, locals, attrs, counters, prevData, decodedFrom, exc, aux>>

\* (a driver with one flag for both peripherals)
PeripheralSetBoth ==
  /\ pc = "p_set"
  /\ isFanOn' = status
  /\ isLaserOn' = status
  /\ pc' = "idle"
  /\ UNCHANGED <<op, caller, locals, latestData, config, lastEv, counters,
                 prevData, decodedFrom, exc, aux>>

\* self.isFanOn = status (self.isLaserOn = status); break
PeripheralSet ==
  /\ pc = "p_set"
  /\ isFanOn' = IF op = "fanPower" THEN status ELSE isFanOn
  /\ isLaserOn' = IF op = "laserPower" THEN status ELSE isLaserOn
  /\ pc' = "idle"
  /\ UNCHANGED <<op, caller, locals, latestData, config, lastEv, counters,
                 prevData, decodedFrom, exc, aux>>

(***************************************************************************)
(* Decoding of the histogram payload                                       *)
(***************************************************************************)
\* (MSB << 8) | LSB
combine_bytesSwapped(LSB, MSB) == LSB * 256 + MSB
combine_bytes(LSB, MSB) == MSB * 256 + LSB

\* n / d rounded to the nearest integer, for n >= 0 (no tie occurs for odd d)
RoundNearest(n, d) == (2 * n + d) \div (2 * d)

\* (a conversion that divides by 2^16: 175000 / 65536 = 21875 / 8192)
convert_TPow16(rawT) == -45000 + (21875 * rawT + 4096) \div 8192

\* round(-45 + 175 * (rawT / 65535), 3), in thousandths of a degree.
\* 175000 / 65535 = 35000 / 13107; the quotient is split to stay in 32 bits.
convert_T(rawT) ==
  -45000 + 35000 * (rawT \div 13107) + RoundNearest(35000 * (rawT % 13107), 13107)

\* round(100 * (rawRH / 65535), 3), in thousandths of a percent.
convert_RH(rawRH) ==
  20000 * (rawRH \div 13107) + RoundNearest(20000 * (rawRH % 13107), 13107)

\* b[k] with Python's 0-based index
At(b, k) == b[k + 1]

\* unpack("f", bytes(b[k:k+4]))[0]: the IEEE-754 single in the byte order of
\* the machine (little-endian on the Raspberry Pi and on x86), kept as its
\* sign, biased exponent and 23-bit mantissa.
unpack_f(b, k) ==
  [sign |-> At(b, k + 3) \div 128,
   exponent |-> (At(b, k + 3) % 128) * 2 + At(b, k + 2) \div 128,
   mantissa |-> (At(b, k + 2) % 128) * 65536 + At(b, k + 1) * 256 + At(b, k)]

\* [histByte for index, histByte in enumerate(raw) if (index + 1) % 2 == 0]:
\* the bytes whose 0-based index passes the filter, in their order.  The
\* enumeration of indices lo..hi is split in halves to keep it shallow.
KeepsFirst(index) == index % 2 = 0
Keeps(index) == (index + 1) % 2 = 0
RECURSIVE StripRange(_, _, _)
StripRange(raw, lo, hi) ==
  IF lo > hi THEN <<>>
  ELSE IF lo = hi THEN (IF Keeps(lo) THEN <<At(raw, lo)>> ELSE <<>>)
  ELSE StripRange(raw, lo, (lo + hi) \div 2)
         \o StripRange(raw, (lo + hi) \div 2 + 1, hi)
Strip(raw) == StripRange(raw, 0, Len(raw) - 1)

\* 2^n, for n in 0..30
RECURSIVE Pow2(_)
Pow2(n) == IF n = 0 THEN 1 ELSE 2 * Pow2(n - 1)

\* Python's round on the quotient n / den: the nearest integer, a tie going
\* to the even one.  sticky: n stands for a number that lies strictly between
\* n and n + 1.
RoundDown(n, den, sticky) == n \div den
RoundHalfEven(n, den, sticky) ==
  LET q == n \div den
      r == n % den
  IN IF 2 * r > den \/ (2 * r = den /\ (sticky \/ q % 2 = 1)) THEN q + 1 ELSE q

\* round(f / div, 3) for the single f and div in {1, 3}: the record [milli]
\* of its thousandths.  |f| is (2^23 + mantissa) * 2^(exponent - 150), so
\* f * 1000 is (2^23 + mantissa) * 125 / 2^(147 - exponent); the numerator
\* fits 32 bits, and the bits shifted out before the division are kept as
\* sticky.  A zero or a subnormal, and everything below 2^-38, rounds to 0.
\* From 2^21 on (and for infinities and NaN) the thousandths do not fit 32
\* bits: the value is kept as the record [f32, div], not rounded.
round_f(f, div) ==
  IF f.exponent > 147 THEN [f32 |-> f, div |-> div]
  ELSE IF f.exponent < 89 THEN [milli |-> 0]
  ELSE LET N == (8388608 + f.mantissa) * 125
           j == 147 - f.exponent
           shifted == IF j > 28 THEN Pow2(j - 28) ELSE 1
           den == div * Pow2(IF j > 28 THEN 28 ELSE j)
           q == RoundHalfEven(N \div shifted, den, N % shifted # 0)
       IN [milli |-> IF f.sign = 1 THEN -q ELSE q]

ScalarKeys ==
  {"MToF (us)", "Period (s)", "Flowrate (ml/s)", "Temp (C)", "RH (%)",
   "PM1 (ug/m-3)", "PM2.5 (ug/m-3)", "PM10 (ug/m-3)"}

\* The value stored under a scalar key.  A rounded single is the record of
\* round_f; a 16-bit field divided by 100 is the fraction [num, den]; the
\* temperature and the humidity are numbers of thousandths.
ScalarFieldShifted(b, key) ==
  CASE key = "MToF (us)" -> round_f(unpack_f(b, 48), 3)
    [] key = "Period (s)" -> [num |-> combine_bytes(At(b, 52), At(b, 53)), den |-> 100]
    [] key = "Flowrate (ml/s)" -> [num |-> combine_bytes(At(b, 53), At(b, 54)), den |-> 100]
    [] key = "Temp (C)" -> convert_T(combine_bytes(At(b, 56), At(b, 57)))
    [] key = "RH (%)" -> convert_RH(combine_bytes(At(b, 58), At(b, 59)))
    [] key = "PM1 (ug/m-3)" -> round_f(unpack_f(b, 60), 1)
    [] key = "PM2.5 (ug/m-3)" -> round_f(unpack_f(b, 64), 1)
    [] key = "PM10 (ug/m-3)" -> round_f(unpack_f(b, 68), 1)
ScalarField(b, key) ==
  CASE key = "MToF (us)" -> round_f(unpack_f(b, 48), 3)
    [] key = "Period (s)" -> [num |-> combine_bytes(At(b, 52), At(b, 53)), den |-> 100]
    [] key = "Flowrate (ml/s)" -> [num |-> combine_bytes(At(b, 54), At(b, 55)), den |-> 100]
    [] key = "Temp (C)" -> convert_T(combine_bytes(At(b, 56), At(b, 57)))
    [] key = "RH (%)" -> convert_RH(combine_bytes(At(b, 58), At(b, 59)))
    [] key = "PM1 (ug/m-3)" -> round_f(unpack_f(b, 60), 1)
    [] key = "PM2.5 (ug/m-3)" -> round_f(unpack_f(b, 64), 1)
    [] key = "PM10 (ug/m-3)" -> round_f(unpack_f(b, 68), 1)

\* opcHistData["Bin Data"]: "Bin n" -> combine_bytes(b[2(n-1)], b[2(n-1)+1])
BinData(b) ==
  [n \in 1..nBins |-> combine_bytes(At(b, (n - 1) * 2), At(b, (n - 1) * 2 + 1))]

\* (a decoder that reports the bins always, zero-filled when they are off)
DecodeZeroFilled(b, useBinData) ==
  [key \in ScalarKeys \cup {"Bin Data"} |->
     IF key = "Bin Data"
       THEN (IF useBinData THEN BinData(b) ELSE [n \in 1..nBins |-> 0])
       ELSE ScalarField(b, key)]

\* (a decoder that adds the bins to the ones latestData holds)
DecodeAccumulating(b, useBinData) ==
  [key \in ScalarKeys \cup (IF useBinData THEN {"Bin Data"} ELSE {}) |->
     IF key = "Bin Data"
       THEN [n \in 1..nBins |->
               BinData(b)[n] +
                 (IF latestData # None /\ "Bin Data" \in DOMAIN latestData.d
                    THEN latestData.d["Bin Data"][n] ELSE 0)]
       ELSE ScalarField(b, key)]

\* opcHistData as built from the 86 bytes b
Decode(b, useBinData) ==
  [key \in ScalarKeys \cup (IF useBinData THEN {"Bin Data"} ELSE {}) |->
     IF key = "Bin Data" THEN BinData(b) ELSE ScalarField(b, key)]

\* (a driver that rejects a frame whose last two bytes are not the 16-bit
\* sum of the bytes before them)
RECURSIVE SumTo(_, _)
SumTo(b, k) == IF k = 0 THEN 0 ELSE (SumTo(b, k - 1) + b[k]) % 65536
FrameAcceptedChecksum(b) ==
  /\ Len(b) = histLen
  /\ combine_bytes(At(b, 84), At(b, 85)) = SumTo(b, 84)

\* if len(opcHistBytes) == 86
FrameAcceptedWire(b) == Len(b) = rawLen
FrameAcceptedOffByOne(b) == Len(b) >= histLen - 1
FrameAccepted(b) == Len(b) = histLen

(***************************************************************************)
(* Wire frames the device may deliver to read(size=172)                    *)
(***************************************************************************)
\* Byte k (0-based) of the payload with contents number seed
PayloadByte(seed, k) == (seed * 37 + k * 11) % 256
\* n wire bytes: the echo of the address byte before each payload byte
WireFrame(seed, n) ==
  [i \in 1..n |-> IF i % 2 = 1 THEN adOPC ELSE PayloadByte(seed, (i \div 2) - 1)]
\* read(size=172) returns 0..172 bytes: none, one, all but two, all but one, all
FrameLengths == {0, 1, rawLen - 2, rawLen - 1, rawLen}
Frames == { WireFrame(seed, n) : seed \in 1..MaxSeed, n \in FrameLengths }

(***************************************************************************)
(* getData                                                                 *)
(***************************************************************************)
\* main calls opc.getData(): loopCount = 0
GetDataCall ==
  /\ Enter("getData")
  /\ pc' = "g_top"
  /\ status' = FALSE
  /\ UNCHANGED <<caller, attrs, decodedFrom>>

\* loopCount += 1; self.opc.write(bytearray([adOPC, reqHist])).  The frame
\* of the attempt before is dead from here on (it is assigned before it is
\* read again), so the model forgets it.
GetDataRequest ==
  /\ pc = "g_top"
  /\ loopCount < MaxAttempts
  /\ loopCount' = loopCount + 1
  /\ lastEv' = WriteEv(<<adOPC, reqHist>>)
  /\ nReq' = nReq + 1
  /\ nFill' = 0
  /\ nFrame' = 0
  /\ opcHistBytesRaw' = <<>>
  /\ pc' = "g_read"
  /\ UNCHANGED <<op, caller, status, opcReturn, histByte, attrs,
                 nCmd, nCool, nInit, allNotReady, prevData, decodedFrom, exc, aux>>

\* opcReturn = self.opc.read(2)
GetDataRead ==
  /\ pc = "g_read"
  /\ \E r \in Replies : opcReturn' = r /\ lastEv' = ReadEv(2, r)
  /\ pc' = "g_check"
  /\ UNCHANGED <<op, caller, status, loopCount, histByte, opcHistBytesRaw, attrs,
                 counters, prevData, decodedFrom, exc, aux>>

\* (a driver that clocks the payload out whatever the answer was)
GetDataNotReadyFills ==
  /\ pc = "g_check"
  /\ ~IsReady(op, opcReturn)
  /\ histByte' = 0
  /\ pc' = "g_fill"
  /\ UNCHANGED <<op, caller, status, loopCount, opcReturn, opcHistBytesRaw, attrs,
                 lastEv, counters, prevData, decodedFrom, exc, aux>>

\* opcReturn is not the ready pattern: the if has no else, the loop goes on
GetDataNotReady ==
  /\ pc = "g_check"
  /\ ~IsReady(op, opcReturn)
  /\ pc' = "g_top"
  /\ UNCHANGED <<op, caller, locals, attrs, lastEv, counters, prevData, decodedFrom, exc, aux>>

\* opcReturn is the ready pattern: for histByte in range(0, 86)
GetDataReady ==
  /\ pc = "g_check"
  /\ IsReady(op, opcReturn)
  /\ histByte' = 0
  /\ allNotReady' = FALSE
  /\ pc' = "g_fill"
  /\ UNCHANGED <<op, caller, status, loopCount, opcReturn, opcHistBytesRaw, attrs,
                 lastEv, nReq, nCmd, nFill, nFrame, nCool, nInit, prevData, decodedFrom, exc, aux>>

\* self.opc.write(bytearray([adOPC, 0x45]))
GetDataFiller ==
  /\ pc = "g_fill"
  /\ lastEv' = WriteEv(<<adOPC, anyValue>>)
  /\ nFill' = nFill + 1
  /\ pc' = "g_fwait"
  /\ UNCHANGED <<op, caller, locals, attrs, nReq, nCmd, nFrame, nCool, nInit,
                 allNotReady, prevData, decodedFrom, exc, aux>>

\* time.sleep(self.wait); next histByte, or the loop is over
GetDataFillerWait ==
  /\ pc = "g_fwait"
  /\ lastEv' = SleepEv(wait)
  /\ IF histByte + 1 < histLen
       THEN histByte' = histByte + 1 /\ pc' = "g_fill"
       ELSE histByte' = histByte /\ pc' = "g_frame"
  /\ UNCHANGED <<op, caller, status, loopCount, opcReturn, opcHistBytesRaw, attrs,
                 counters, prevData, decodedFrom, exc, aux>>

\* opcHistBytesRaw = bytearray(self.opc.read(size=172))
GetDataFrame ==
  /\ pc = "g_frame"
  /\ \E raw \in Frames : opcHistBytesRaw' = raw /\ lastEv' = ReadEv(rawLen, raw)
  /\ nFrame' = nFrame + 1
  /\ pc' = "g_decode"
  /\ UNCHANGED <<op, caller, status, loopCount, opcReturn, histByte, attrs,
                 nReq, nCmd, nFill, nCool, nInit, allNotReady, prevData, decodedFrom, exc, aux>>

\* (a driver that tests the ceiling before the length of the frame)
GetDataDecodeBelowCeiling ==
  /\ pc = "g_decode"
  /\ FrameAccepted(Strip(opcHistBytesRaw))
  /\ IF CeilingExceeded(loopCount)
       THEN /\ lastEv' = SleepEv(cooldownSleep)
            /\ nCool' = nCool + 1
            /\ caller' = "getData"
            /\ pc' = "ic_boot"
            /\ UNCHANGED <<latestData, decodedFrom>>
       ELSE /\ latestData' = Some(Decode(Strip(opcHistBytesRaw), config.UseBinData))
            /\ decodedFrom' = Strip(opcHistBytesRaw)
            /\ pc' = "idle"
            /\ UNCHANGED <<lastEv, nCool, caller>>
  /\ UNCHANGED <<op, locals, isFanOn, isLaserOn, config, nReq, nCmd, nFill, nFrame,
                 nInit, allNotReady, prevData, exc, aux>>

\* if len(opcHistBytes) == 86: self.latestData = opcHistData; break
GetDataDecode ==
  /\ pc = "g_decode"
  /\ LET opcHistBytes == Strip(opcHistBytesRaw) IN
       /\ FrameAccepted(opcHistBytes)
       /\ latestData' = Some(Decode(opcHistBytes, config.UseBinData))
       /\ decodedFrom' = opcHistBytes
  /\ pc' = "idle"
  /\ UNCHANGED <<op, caller, locals, isFanOn, isLaserOn, config, lastEv, counters,
                 prevData, exc, aux>>

\* elif loopCount > 20: time.sleep(3); self.initConnection()
GetDataHardFailure ==
  /\ pc = "g_decode"
  /\ ~FrameAccepted(Strip(opcHistBytesRaw))
  /\ CeilingExceeded(loopCount)
  /\ lastEv' = SleepEv(cooldownSleep)
  /\ nCool' = nCool + 1
  /\ caller' = "getData"
  /\ pc' = "ic_boot"
  /\ UNCHANGED <<op, locals, attrs, nReq, nCmd, nFill, nFrame, nInit, allNotReady,
                 prevData, decodedFrom, exc, aux>>

\* ... self.latestData = None; break
GetDataNoneKeep == latestData
GetDataNoneValue == None
GetDataNone ==
  /\ pc = "g_none"
  /\ latestData' = GetDataNoneValue
  /\ decodedFrom' = IF latestData' = None THEN <<>> ELSE decodedFrom
  /\ caller' = "main"
  /\ pc' = "idle"
  /\ UNCHANGED <<op, locals, isFanOn, isLaserOn, config, lastEv, counters,
                 prevData, exc, aux>>

\* else: time.sleep(self.wait * 10)
GetDataRetry ==
  /\ pc = "g_decode"
  /\ ~FrameAccepted(Strip(opcHistBytesRaw))
  /\ ~CeilingExceeded(loopCount)
  /\ lastEv' = SleepEv(wait * 10)
  /\ pc' = "g_top"
  /\ UNCHANGED <<op, caller, locals, attrs, counters, prevData, decodedFrom, exc, aux>>

(***************************************************************************)
(* formatData                                                              *)
(***************************************************************************)
\* formatData(): with "Use Bin Data" the bins are read from latestData and
\* popped from it; latestData["Bin Data"] raises KeyError when they are gone
\* (a second formatData on the same measurement).
FormatData ==
  /\ EnterLocals("formatData")
  /\ pc' = "idle"
  /\ status' = FALSE
  /\ IF latestData = None \/ ~config.UseBinData
       THEN exc' = "none" /\ UNCHANGED latestData
       ELSE IF "Bin Data" \in DOMAIN latestData.d
         THEN /\ exc' = "none"
              /\ latestData' = Some([key \in ScalarKeys |-> latestData.d[key]])
         ELSE exc' = "KeyError" /\ UNCHANGED latestData
  /\ UNCHANGED <<caller, isFanOn, isLaserOn, config, decodedFrom>>

(***************************************************************************)
(* printOutput                                                             *)
(***************************************************************************)
\* printOutput(): the three PM fields of latestData are read and the string
\* made of them is returned; nothing is assigned
PrintOutput ==
  /\ Enter("printOutput")
  /\ pc' = "idle"
  /\ status' = FALSE
  /\ UNCHANGED <<caller, attrs, decodedFrom>>

(***************************************************************************)
(* The driver and its caller                                               *)
(***************************************************************************)
Next ==
  \/ InitConnectionCall
  \/ InitBoot
  \/ \E k \in 1..3 : InitWrite(k)
  \/ \E k \in 1..3 : InitRead(k)
  \/ \E k \in 1..3 : InitWait(k)
  \/ \E m \in Peripherals, s \in BOOLEAN : PeripheralCall(m, s)
  \/ PeripheralProbe
  \/ PeripheralRead
  \/ PeripheralReady
  \/ PeripheralCooldown
  \/ PeripheralRetry
  \/ PeripheralCommand
  \/ PeripheralAck
  \/ PeripheralSettle
  \/ PeripheralSet
  \/ GetDataCall
  \/ GetDataRequest
  \/ GetDataRead
  \/ GetDataNotReady
  \/ GetDataReady
  \/ GetDataFiller
  \/ GetDataFillerWait
  \/ GetDataFrame
  \/ GetDataDecode
  \/ GetDataHardFailure
  \/ GetDataNone
  \/ GetDataRetry
  \/ FormatData
  \/ PrintOutput

Spec == Init /\ [][Next]_vars

(***************************************************************************)
(* The driver on a channel that can fail: self.opc.write and self.opc.read *)
(* may raise serial.SerialException.  No method of OPCN3 has a try         *)
(* statement, so the exception leaves the running method (and getData,     *)
(* when it is raised in the initConnection that getData called) at the     *)
(* call that raised.                                                       *)
(***************************************************************************)
\* Positions whose next step is a write or a read
ChannelPcs ==
  {"ic_w1", "ic_r1", "ic_w2", "ic_r2", "ic_w3", "ic_r3",
   "p_top", "p_read", "p_cmd", "p_ack",
   "g_top", "g_read", "g_fill", "g_frame"}

\* (a driver that catches the error, sleeps 3 s and starts its loop again)
ChannelErrorRetried ==
  /\ pc \in ChannelPcs
  /\ lastEv' = ErrEv
  /\ pc' = IF op \in Peripherals THEN "p_top"
           ELSE IF op = "getData" THEN "g_top" ELSE "ic_boot"
  /\ caller' = IF op = "getData" THEN "main" ELSE caller
  /\ UNCHANGED <<op, locals, attrs, counters, prevData, decodedFrom, exc, aux>>

\* the write or read raises: the method ends there, nothing is assigned
ChannelError ==
  /\ pc \in ChannelPcs
  /\ lastEv' = ErrEv
  /\ exc' = "SerialException"
  /\ caller' = "main"
  /\ pc' = "idle"
  /\ UNCHANGED <<op, locals, attrs, counters, prevData, decodedFrom, aux>>

NextChannelErrors ==
  \/ Next
  \/ ChannelError

SpecChannelErrors == Init /\ [][NextChannelErrors]_vars

(***************************************************************************)
(* The peripheral methods alone, with the fairness of a running program:   *)
(* a method that was entered keeps executing (every write returns, every   *)
(* read returns within the serial timeout, every sleep ends).  What the    *)
(* device answers stays free.                                              *)
(***************************************************************************)
PeripheralStep ==
  \/ PeripheralProbe
  \/ PeripheralRead
  \/ PeripheralReady
  \/ PeripheralCooldown
  \/ PeripheralRetry
  \/ PeripheralCommand
  \/ PeripheralAck
  \/ PeripheralSettle
  \/ PeripheralSet

NextPeripheral ==
  \/ \E m \in Peripherals, s \in BOOLEAN : PeripheralCall(m, s)
  \/ PeripheralStep

SpecPeripheralFair == Init /\ [][NextPeripheral]_vars /\ WF_vars(PeripheralStep)

(***************************************************************************)
(* The decoding functions called on their own: convert_T and convert_RH on *)
(* a raw value, and the decoding of getData on a wire frame made of known  *)
(* field values.                                                           *)
(***************************************************************************)
\* What combine_bytes returns over all pairs of bytes
RawValues == 0..combine_bytes(255, 255)

\* Values a bin may hold
BinEdge == <<0, 1, 255, 256, 4660, 32768, 65280, 65535>>
\* 24 bin values: the values of BinEdge in turn, starting at the one number g
BinVector(g) == [i \in 1..nBins |-> BinEdge[((i + g) % Len(BinEdge)) + 1]]

\* Singles the device may send, as their four bytes in wire order:
\* 1.23, 4.56, 7.89, 0.0625, 0.1875, -2.5, 0.0005, 12.3456, 0.0, 100.0
FloatPatterns ==
  << <<164, 112, 157, 63>>, <<133, 235, 145, 64>>, <<225, 122, 252, 64>>,
     <<0, 0, 128, 61>>, <<0, 0, 64, 62>>, <<0, 0, 32, 192>>,
     <<111, 18, 3, 58>>, <<148, 135, 69, 65>>, <<0, 0, 0, 0>>, <<0, 0, 200, 66>> >>

\* Payload offsets of the four singles: PM1, PM2.5, PM10, time of flight
FloatOffsets == <<60, 64, 68, 48>>

\* Payload bytes 48..85 (38 bytes) with contents number seed
BaseRest(seed) == [r \in 1..(histLen - 2 * nBins) |-> PayloadByte(seed, 2 * nBins - 1 + r)]
\* ... with the byte at payload offset k replaced by v
PerturbedRest(seed, k, v) ==
  [r \in 1..(histLen - 2 * nBins) |->
     IF 2 * nBins - 1 + r = k THEN v ELSE PayloadByte(seed, 2 * nBins - 1 + r)]
\* ... with the singles of FloatPatterns in the four float fields, starting
\* at the pattern number g
FloatRest(g) ==
  [r \in 1..(histLen - 2 * nBins) |->
     LET k == 2 * nBins - 1 + r
         slots == { t \in 1..Len(FloatOffsets) :
                      k >= FloatOffsets[t] /\ k < FloatOffsets[t] + 4 }
     IN IF slots = {} THEN PayloadByte(1, k)
        ELSE LET t == CHOOSE t \in slots : TRUE
             IN FloatPatterns[((t - 1 + g) % Len(FloatPatterns)) + 1][k - FloatOffsets[t] + 1]]

\* The fields a frame is made of: 24 bin values, payload bytes 48..85, and
\* the byte the device sends in exchange for each address byte
DecodeInputs ==
  { [bins |-> BinVector(g), rest |-> BaseRest(1), filler |-> f] :
      g \in 0..(Len(BinEdge) - 1), f \in {adOPC, 0, 255} }
  \cup
  { [bins |-> BinVector(0), rest |-> PerturbedRest(seed, k, v), filler |-> adOPC] :
      seed \in 1..MaxSeed, k \in (2 * nBins)..(histLen - 1), v \in {0, 255} }
  \cup
  { [bins |-> BinVector(0), rest |-> FloatRest(g), filler |-> adOPC] :
      g \in 0..(Len(FloatPatterns) - 1) }

\* The 86 payload bytes: bin i (0-based) as LSB, MSB at bytes 2i, 2i + 1
PayloadOf(in) ==
  [k \in 1..histLen |->
     IF k > 2 * nBins THEN in.rest[k - 2 * nBins]
     ELSE IF k % 2 = 1 THEN in.bins[(k + 1) \div 2] % 256
     ELSE in.bins[k \div 2] \div 256]
\* The wire frame: the filler, then a payload byte, 86 times
WireOf(in) ==
  [i \in 1..(2 * histLen) |-> IF i % 2 = 1 THEN in.filler ELSE PayloadOf(in)[i \div 2]]

\* round(convert_T(rawValue), 3) and round(convert_RH(rawValue), 3), called
\* on any raw value, and then on the raw values above it in turn
CallConvert ==
  /\ probe.fn \in {"none", "convert"}
  /\ \E rawValue \in (IF probe.fn = "convert" THEN {probe.raw + 1} \cap RawValues
                      ELSE RawValues) :
       probe' = [fn |-> "convert", raw |-> rawValue,
                 T |-> convert_T(rawValue), RH |-> convert_RH(rawValue)]
  /\ UNCHANGED <<driver, file, opcData>>

\* The decoding of getData on the wire frame of one input: opcHistBytes,
\* the length check and opcHistData; None when the frame is not accepted
CallDecode ==
  /\ probe = NoProbe
  /\ \E in \in DecodeInputs :
       LET raw == WireOf(in)
           opcHistBytes == Strip(raw)
       IN probe' = [fn |-> "decode", bins |-> in.bins, raw |-> raw,
                    out |-> IF FrameAccepted(opcHistBytes)
                              THEN Some(Decode(opcHistBytes, config.UseBinData))
                              ELSE None]
  /\ UNCHANGED <<driver, file, opcData>>

\* What read(size=172) may return: 0..172 bytes, the device echoing the
\* address byte before each payload byte, or sending bytes of its own
StripInputs ==
  { WireFrame(seed, n) : seed \in 1..MaxSeed, n \in 0..rawLen }
  \cup
  { [i \in 1..n |-> (i * (2 * seed + 1)) % 256] : seed \in 1..MaxSeed, n \in 0..rawLen }

\* The list comprehension of getData on one wire frame
CallStrip ==
  /\ probe = NoProbe
  /\ \E raw \in StripInputs :
       probe' = [fn |-> "strip", raw |-> raw, out |-> Strip(raw)]
  /\ UNCHANGED <<driver, file, opcData>>

\* Payloads of 85 and of 86 bytes, and the ones that differ from them in
\* one byte or in all the bytes of one region: the bins (0..47), the decoded
\* fields (48..71), the fields getData does not read (72..85)
PairBases ==
  { [k \in 1..n |-> PayloadByte(seed, k - 1)] : seed \in 1..MaxSeed, n \in {histLen - 1, histLen} }
PairRanges ==
  { <<k, k>> : k \in 0..(histLen - 1) }
  \cup { <<0, 2 * nBins - 1>>, <<2 * nBins, 71>>, <<72, histLen - 1>> }
Twin(p, range, v) ==
  [k \in 1..Len(p) |->
     IF k - 1 >= range[1] /\ k - 1 <= range[2] THEN (p[k] + v) % 256 ELSE p[k]]
\* The wire frame of a payload, the address byte echoed before each byte
Wire(p) == [i \in 1..(2 * Len(p)) |-> IF i % 2 = 1 THEN adOPC ELSE p[i \div 2]]
\* What getData stores for one wire frame, None when it is not accepted
Stored(raw) ==
  LET opcHistBytes == Strip(raw)
  IN IF FrameAccepted(opcHistBytes)
       THEN Some(Decode(opcHistBytes, config.UseBinData))
       ELSE None

\* The decoding of getData on two wire frames
CallDecodePair ==
  /\ probe = NoProbe
  /\ \E p \in PairBases, range \in PairRanges, v \in {1, 128, 255} :
       LET q == Twin(p, range, v)
       IN probe' = [fn |-> "pair", a |-> p, b |-> q,
                    outA |-> Stored(Wire(p)), outB |-> Stored(Wire(q))]
  /\ UNCHANGED <<driver, file, opcData>>

NextFunctions ==
  \/ CallConvert
  \/ CallDecode
  \/ CallStrip
  \/ CallDecodePair

SpecFunctions == Init /\ [][NextFunctions]_vars

(***************************************************************************)
(* src/main.py: what formatData returns is saved to the csv file of the    *)
(* day.  A line of the file is the sequence of its comma-separated cells;  *)
(* a cell is [kind, v], kind naming the expression the cell was formatted  *)
(* from.  The timestamp is not modelled beyond the day, which names the    *)
(* file.                                                                   *)
(***************************************************************************)
\* The keys of opcHistData without "Bin Data", in the order of the dict
DataKeys ==
  <<"MToF (us)", "Period (s)", "Flowrate (ml/s)", "Temp (C)", "RH (%)",
    "PM1 (ug/m-3)", "PM2.5 (ug/m-3)", "PM10 (ug/m-3)">>

\* The dict formatData returns for latestData = ld, as getData left it
formatDataReturn(ld, useBinData) ==
  [key \in {"Headers", "Data", "Bin Headers", "Bin Data"} |->
     IF ld = None THEN None
     ELSE CASE key = "Headers" ->
                 Some([i \in 1..Len(DataKeys) |-> [kind |-> "header", v |-> DataKeys[i]]])
            [] key = "Data" ->
                 Some([i \in 1..Len(DataKeys) |-> [kind |-> "value", v |-> ld.d[DataKeys[i]]]])
            [] key = "Bin Headers" ->
                 IF useBinData
                   THEN Some([n \in 1..nBins |-> [kind |-> "binHeader", v |-> n]])
                   ELSE None
            [] key = "Bin Data" ->
                 IF useBinData
                   THEN Some([n \in 1..nBins |-> [kind |-> "bin", v |-> ld.d["Bin Data"][n]]])
                   ELSE None]

\* f'{x}' for a value of that dict: the cells of the string, or the one cell None
Cells(x) == IF x = None THEN << [kind |-> "None", v |-> 0] >> ELSE x.d

\* ('None, ' * 23) + 'None'
bin_NonesShort == [n \in 1..(nBins - 1) |-> [kind |-> "binNone", v |-> 0]]
bin_Nones == [n \in 1..nBins |-> [kind |-> "binNone", v |-> 0]]

\* measurementTime, and the header 'Timestamp'
TimeCell == << [kind |-> "measurementTime", v |-> 0] >>
TimestampCell == << [kind |-> "Timestamp", v |-> 0] >>

\* "Bin" in fileHeaders: of the cells a header line is made of (Timestamp,
\* the eight data keys, Bin 1 .. Bin 24) the bin headers alone contain "Bin"
binHeadersPresent(fileHeaders) ==
  \E i \in 1..Len(fileHeaders) : fileHeaders[i].kind = "binHeader"

\* The csv file after save_to_file(data, timestamp, filePath) found it as f
save_to_file(f, data) ==
  IF f.exists
    THEN LET binDataPresent == data["Bin Headers"] # None
             line ==
               IF binHeadersPresent(f.fileHeaders) /\ binDataPresent
                 THEN TimeCell \o Cells(data["Data"]) \o Cells(data["Bin Data"])
               ELSE IF binHeadersPresent(f.fileHeaders)
                 THEN TimeCell \o Cells(data["Data"]) \o bin_Nones
               ELSE TimeCell \o Cells(data["Data"])
         IN [f EXCEPT !.rows = Append(@, line)]
    ELSE IF data["Bin Headers"] # None
      THEN [exists |-> TRUE,
            fileHeaders |-> TimestampCell \o Cells(data["Headers"]) \o Cells(data["Bin Headers"]),
            rows |-> << TimeCell \o Cells(data["Data"]) \o Cells(data["Bin Data"]) >>]
    ELSE IF data["Headers"] # None
      THEN [exists |-> TRUE,
            fileHeaders |-> TimestampCell \o Cells(data["Headers"]),
            rows |-> << TimeCell \o Cells(data["Data"]) >>]
    ELSE f

\* What opc.getData() leaves in latestData: None, or a measurement
Measurements(useBinData) ==
  {None} \cup { Some(Decode(Strip(WireFrame(seed, rawLen)), useBinData)) : seed \in 1..MaxSeed }

\* One turn of the loop of main after opc.getData():
\* save_to_file(opc.formatData(), dt.datetime.now(), opcConfig["File Path"])
SaveToFile ==
  /\ file.exists => Len(file.rows) < MaxRows
  /\ \E ld \in Measurements(config.UseBinData) :
       LET data == formatDataReturn(ld, config.UseBinData) IN
         /\ opcData' = [passed |-> TRUE, d |-> data]
         /\ file' = save_to_file(file, data)
  /\ UNCHANGED <<driver, probe>>

\* The date changes: fileName is another file, which does not exist yet
NewDay ==
  /\ file.exists
  /\ file' = NoFile
  /\ UNCHANGED <<driver, probe, opcData>>

\* The program is stopped and started with another OPCSettings.json; the
\* files it wrote stay
Restart ==
  /\ config' \in [UseBinData : BOOLEAN]
  /\ config' # config
  /\ UNCHANGED <<pc, op, caller, locals, isFanOn, isLaserOn, latestData, lastEv,
                 counters, prevData, decodedFrom, exc, aux>>

NextSave ==
  \/ SaveToFile
  \/ NewDay
  \/ Restart

SpecSave == Init /\ [][NextSave]_vars

(***************************************************************************)
(* The start of the program: initConnection, then the peripheral methods,  *)
(* the channel raising or not; a running program goes on through           *)
(* initConnection, which has no loop and waits for nothing but its sleeps. *)
(***************************************************************************)
InitStep ==
  \/ InitBoot
  \/ \E k \in 1..3 : InitWrite(k)
  \/ \E k \in 1..3 : InitRead(k)
  \/ \E k \in 1..3 : InitWait(k)

NextStart ==
  \/ InitConnectionCall
  \/ InitStep
  \/ NextPeripheral
  \/ ChannelError

SpecStartFair == Init /\ [][NextStart]_vars /\ WF_vars(InitStep)

(***************************************************************************)
(* src/main.py: the scheduling functions called on their own.  A datetime  *)
(* is its number of seconds since the start of an hour 0; microseconds are *)
(* left out (both functions set them to 0 with the seconds).               *)
(***************************************************************************)
\* The keys of setIntervals, and one string that is not a key
TimeIntervals == {"1m", "5m", "10m", "15m", "30m", "1h", "2m"}

\* setIntervals[timeInterval], after "if timeInterval not in ...: '1m'"
setIntervals(timeInterval) ==
  CASE timeInterval = "1m" -> 1
    [] timeInterval = "5m" -> 5
    [] timeInterval = "10m" -> 10
    [] timeInterval = "15m" -> 15
    [] timeInterval = "30m" -> 30
    [] timeInterval = "1h" -> 60
    [] OTHER -> 1

\* int(currentTime.strftime("%M"))
MinuteOf(t) == (t \div 60) % 60
\* currentTime.replace(minute=0, second=0, microsecond=0)
HourStart(t) == (t \div 3600) * 3600

\* (a loop that takes the first valid minute >= currentMinute)
first_measurement_timeNotStrict(timeInterval, currentTime) ==
  LET validMinutes == { m \in 0..59 : m % setIntervals(timeInterval) = 0 }
      later == { m \in validMinutes \ {0} : m >= MinuteOf(currentTime) }
      nextMinute == IF later = {} THEN 60
                    ELSE CHOOSE m \in later : \A n \in later : m <= n
  IN HourStart(currentTime) + nextMinute * 60

\* validMinutes = range(0, 60, step); the first minute of validMinutes[1:]
\* that is > currentMinute, or 60; replace(minute=nextMinute, second=0), or
\* replace(minute=0, second=0) + timedelta(hours=1)
first_measurement_time(timeInterval, currentTime) ==
  LET validMinutes == { m \in 0..59 : m % setIntervals(timeInterval) = 0 }
      later == { m \in validMinutes \ {0} : m > MinuteOf(currentTime) }
      nextMinute == IF later = {} THEN 60
                    ELSE CHOOSE m \in later : \A n \in later : m <= n
  IN IF nextMinute < 60
       THEN HourStart(currentTime) + nextMinute * 60
       ELSE HourStart(currentTime) + 3600

\* (currentTime + timedelta(minutes=...)).replace(second=0, microsecond=0)
next_measurement_time(timeInterval, currentTime) ==
  ((currentTime + setIntervals(timeInterval) * 60) \div 60) * 60

\* The clock times the functions are called on
ClockTimes == 0..(MaxHours * 3600 - 1)

CallFirstMeasurementTime ==
  /\ probe = NoProbe
  /\ \E timeInterval \in TimeIntervals, currentTime \in ClockTimes :
       probe' = [fn |-> "first_measurement_time",
                 timeInterval |-> timeInterval, currentTime |-> currentTime,
                 out |-> first_measurement_time(timeInterval, currentTime)]
  /\ UNCHANGED <<driver, file, opcData>>

CallNextMeasurementTime ==
  /\ probe = NoProbe
  /\ \E timeInterval \in TimeIntervals, currentTime \in ClockTimes :
       probe' = [fn |-> "next_measurement_time",
                 timeInterval |-> timeInterval, currentTime |-> currentTime,
                 out |-> next_measurement_time(timeInterval, currentTime)]
  /\ UNCHANGED <<driver, file, opcData>>

\* timedelta.seconds of a difference of td seconds: a timedelta is kept as
\* days, seconds in 0..86399 and microseconds, a negative one with days < 0
timedeltaSeconds(td) == td % 86400

\* Seconds from startTime = now() to the now() of timeToNextMeasurement:
\* what getData, formatData, save_to_file and the prints take
CycleDurations == {0, 1, 5, 59, 61, 301, 3601}

\* One pass of the while loop that started at startTime and took elapsed
\* seconds to the last now(): the argument of time.sleep
LoopSleep(timeInterval, startTime, elapsed) ==
  LET nextMeasurementTime == next_measurement_time(timeInterval, startTime)
      timeToNextMeasurement == nextMeasurementTime - (startTime + elapsed)
  IN timedeltaSeconds(timeToNextMeasurement)

CallMainLoopCycle ==
  /\ probe = NoProbe
  /\ \E timeInterval \in TimeIntervals, startTime \in ClockTimes,
        elapsed \in CycleDurations :
       probe' = [fn |-> "main_loop",
                 timeInterval |-> timeInterval, currentTime |-> startTime,
                 elapsed |-> elapsed,
                 out |-> LoopSleep(timeInterval, startTime, elapsed)]
  /\ UNCHANGED <<driver, file, opcData>>

NextSchedule ==
  \/ CallFirstMeasurementTime
  \/ CallNextMeasurementTime
  \/ CallMainLoopCycle

SpecSchedule == Init /\ [][NextSchedule]_vars

(***************************************************************************)
(* Vocabulary of the properties                                            *)
(***************************************************************************)
\* The ready acknowledgement as documented: 0xFF 0xF3
ReadyPattern == <<255, 243>>
\* ... and the two byte orders
EitherOrder == { <<255, 243>>, <<243, 255>> }
\* The method m has returned normally and nothing was called since
Returned(m) == pc = "idle" /\ op = m /\ exc = "none"
\* Positions inside initConnection
InitPcs ==
  {"ic_boot", "ic_w1", "ic_r1", "ic_s1", "ic_w2", "ic_r2", "ic_s2", "ic_w3", "ic_r3", "ic_s3"}
\* getData is on its hard-failure path: one cooldown done, initConnection
\* running or done, and None stored at the return
OnHardFailurePath ==
  /\ nCool = 1
  /\ \/ pc \in InitPcs /\ nInit = 0
     \/ pc = "g_none" /\ nInit = 1
     \/ pc = "idle" /\ nInit = 1 /\ latestData = None
\* The flag a peripheral method sets
Flag(m) == IF m = "fanPower" THEN isFanOn ELSE isLaserOn
\* The on/off codes of the command table: fan-on 0x03, fan-off 0x02,
\* laser-on 0x07, laser-off 0x06
CommandCode(m, s) ==
  IF m = "fanPower" THEN (IF s THEN 3 ELSE 2) ELSE (IF s THEN 7 ELSE 6)

(***************************************************************************)
(* C1: in one getData call, once the device has answered 21 consecutive    *)
(* histogram requests with something other than the ready pattern, the     *)
(* call is on its hard-failure path: exactly one cooldown wait, then       *)
(* exactly one run of initConnection, then it returns with                 *)
(* latestData = None.  (Stated as the claim has it; the code does not do   *)
(* this: a not-ready answer skips the ceiling check.)                      *)
(***************************************************************************)
C1_HardFailureAfter21NotReady ==
  (op = "getData" /\ allNotReady /\ loopCount >= loopCeiling + 1
     /\ pc \notin {"g_read", "g_check"})
  => OnHardFailurePath

(***************************************************************************)
(* C2: a getData call writes at most 21 histogram requests before it ends, *)
(* whatever the device answers.  (Stated as the claim has it.)             *)
(***************************************************************************)
C2_AtMost21Requests == op = "getData" => nReq <= loopCeiling + 1

(***************************************************************************)
(* C3: isFanOn changes only in the step of fanPower that stores the        *)
(* requested status, after that call read the ready pattern in answer to   *)
(* its probe and wrote its command; isLaserOn likewise in laserPower.  No  *)
(* other step (a not-ready attempt, a short wait, a cooldown, any step of  *)
(* another method) changes a flag.                                         *)
(***************************************************************************)
C3_FlagChange(m, old, new) ==
  old # new =>
    /\ op = m /\ pc = "p_set" /\ pc' = "idle"
    /\ opcReturn = ReadyPattern
    /\ nCmd = 1
    /\ new = status

C3_FlagsChangeOnlyAfterReady ==
  [][ /\ C3_FlagChange("fanPower", isFanOn, isFanOn')
      /\ C3_FlagChange("laserPower", isLaserOn, isLaserOn') ]_vars

\* fanPower(False) has returned after at least one not-ready attempt and
\* the flag has changed
C3_Witness ==
  Returned("fanPower") /\ ~isFanOn /\ nReq > 1 /\ opcReturn = ReadyPattern

(***************************************************************************)
(* C4: the ready check accepts the 2-byte answer in either byte order and  *)
(* nothing else: a call that went back to poll again had an answer that is *)
(* neither 0xFF 0xF3 nor 0xF3 0xFF, and a call that went on to its command *)
(* or to its filler probes had one of the two.  (Stated as the claim has   *)
(* it; the code accepts 0xFF 0xF3 alone.)                                  *)
(***************************************************************************)
C4_EitherOrderAccepted ==
  /\ (pc \in {"p_top", "g_top"} /\ nReq > 0 /\ allNotReady)
       => opcReturn \notin EitherOrder
  /\ pc \in {"p_cmd", "g_fill"} => opcReturn \in EitherOrder

(***************************************************************************)
(* C5: in fanPower and laserPower the cooldown (sleep of 3 s, loopCount    *)
(* back to 0) happens exactly at each 21st consecutive not-ready probe     *)
(* counted from the start of the call or from the previous cooldown: when  *)
(* nReq probes have been judged, nReq div 21 cooldowns have happened, and  *)
(* the step that sleeps 3 s is the one that judges the 21st and resets the *)
(* counter.                                                                *)
(***************************************************************************)
C5_Count ==
  (op \in Peripherals) =>
    /\ nReq = (loopCeiling + 1) * nCool + loopCount
    /\ loopCount <= loopCeiling + 1
    /\ (pc = "p_top" => loopCount <= loopCeiling /\ nCool = nReq \div (loopCeiling + 1))

C5_CooldownStep ==
  (op \in Peripherals /\ (lastEv' = SleepEv(cooldownSleep) \/ nCool' # nCool)
     /\ pc # "idle") =>
    /\ pc = "p_check" /\ opcReturn # ReadyPattern
    /\ loopCount = loopCeiling + 1 /\ loopCount' = 0
    /\ nCool' = nCool + 1 /\ lastEv' = SleepEv(cooldownSleep)

C5_CooldownExactlyAt21st == []C5_Count /\ [][C5_CooldownStep]_vars

\* 21 not-ready probes, one cooldown, 19 more not-ready probes and ready on
\* the 20th: the call returns with one cooldown only
C5_Witness ==
  Returned("fanPower") /\ nReq = 2 * loopCeiling + 1 /\ nCool = 1 /\ loopCount = loopCeiling

(***************************************************************************)
(* C6: fanPower and laserPower never give up.  They return only from the   *)
(* step that follows a ready answer, with the flag equal to the requested  *)
(* status; while a call runs the driver always has a next step (up to the  *)
(* number of cooldowns the model allows); and once a probe is answered     *)
(* with the ready pattern the call returns with the flag set as requested. *)
(***************************************************************************)
C6_ReturnOnlyAfterReady ==
  (op \in Peripherals /\ pc # "idle" /\ pc' = "idle") =>
    /\ opcReturn = ReadyPattern
    /\ nCmd = 1
    /\ Flag(op)' = status

\* the model's own stop: the cooldown that would exceed MaxCooldowns
C6_AtModelBound ==
  pc = "p_check" /\ opcReturn # ReadyPattern /\ loopCount > loopCeiling
    /\ nCool >= MaxCooldowns

C6_KeepsPolling ==
  (op \in Peripherals /\ pc # "idle" /\ ~C6_AtModelBound) => ENABLED PeripheralStep

C6_ReadyLeadsToReturn ==
  \A m \in Peripherals, s \in BOOLEAN :
    (op = m /\ status = s /\ pc = "p_check" /\ opcReturn = ReadyPattern)
      ~> (Returned(m) /\ status = s /\ Flag(m) = s)

C6_NeverGivesUp ==
  /\ [][C6_ReturnOnlyAfterReady]_vars
  /\ []C6_KeepsPolling
  /\ C6_ReadyLeadsToReturn

\* laserPower(False) has returned after a cooldown cycle
C6_Witness ==
  Returned("laserPower") /\ nCool = 1 /\ ~status /\ ~isLaserOn

(***************************************************************************)
(* C7: a peripheral call writes no on/off command before its probe was     *)
(* answered ready and exactly one afterwards, the command of the requested *)
(* status, however many not-ready probes came first; when it has returned  *)
(* the flag equals the requested status.  This holds for every call,       *)
(* whatever the calls before it: a second fanPower(True) again writes      *)
(* exactly one on-command and leaves isFanOn true.                         *)
(***************************************************************************)
C7_OneCommandPerCall ==
  (op \in Peripherals) =>
    /\ pc \in {"p_top", "p_read", "p_check", "p_cmd"} => nCmd = 0
    /\ pc \in {"p_ack", "p_settle", "p_set", "idle"} => nCmd = 1
    /\ pc = "p_ack" => lastEv = WriteEv(<<97, CommandCode(op, status)>>)
    /\ pc = "idle" => Flag(op) = status

\* fanPower(True) entered with isFanOn already true (as after a first
\* fanPower(True)), ready on the first probe, its one command written
C7_Witness ==
  /\ op = "fanPower" /\ pc = "p_set" /\ status /\ isFanOn
  /\ nReq = 1 /\ nCmd = 1

(***************************************************************************)
(* C8: in getData a malformed frame and a not-ready answer count alike:    *)
(* after 21 failed attempts of either kind, in any order, the call is on   *)
(* its hard-failure path and does not go back for another attempt.         *)
(* (Stated as the claim has it, for a call that saw both kinds.)           *)
(***************************************************************************)
C8_HardFailureAt21stFailedAttempt ==
  (op = "getData" /\ ~allNotReady /\ loopCount >= loopCeiling + 1 /\ pc = "g_top")
  => OnHardFailurePath

(***************************************************************************)
(* C9: in every reachable state latestData is None or holds all eight      *)
(* scalar fields, each as decoded from a payload (opcHistBytes) of exactly *)
(* 86 bytes, and the bins of that payload when it holds bins; a shorter    *)
(* payload is never decoded into it.                                       *)
(***************************************************************************)
C9_NoneOrComplete ==
  \/ latestData = None /\ decodedFrom = <<>>
  \/ /\ latestData # None
     /\ Len(decodedFrom) = 86
     /\ ScalarKeys \subseteq DOMAIN latestData.d
     /\ \A key \in ScalarKeys :
          latestData.d[key] = ScalarField(decodedFrom, key)
     /\ "Bin Data" \in DOMAIN latestData.d =>
          latestData.d["Bin Data"] = BinData(decodedFrom)

\* a call read a frame one byte short of 172 and went back to retry:
\* latestData still holds the complete measurement of an earlier call
C9_Witness ==
  /\ op = "getData" /\ pc = "g_top" /\ nFrame = 1
  /\ Len(opcHistBytesRaw) = 171
  /\ latestData # None

(***************************************************************************)
(* C10: when getData has returned, latestData is None (hard-failure path:  *)
(* one cooldown, one initConnection) or the measurement decoded from the   *)
(* frame read in the last attempt of that same call; never what an earlier *)
(* call left.                                                              *)
(***************************************************************************)
C10_FreshOrNone ==
  Returned("getData") =>
    \/ latestData = None /\ nCool = 1 /\ nInit = 1
    \/ /\ nFrame = 1 /\ nCool = 0 /\ nInit = 0
       /\ Len(Strip(opcHistBytesRaw)) = 86
       /\ latestData = Some(Decode(Strip(opcHistBytesRaw), config.UseBinData))

\* the call started with a measurement of an earlier call and returned
\* with another one
C10_Witness ==
  /\ Returned("getData")
  /\ prevData # None /\ latestData # None
  /\ latestData.d["PM1 (ug/m-3)"] # prevData.d["PM1 (ug/m-3)"]

(***************************************************************************)
(* C11: the measurement getData has stored holds bin data exactly when     *)
(* "Use Bin Data" is set in the configuration: with it, the 24 entries     *)
(* Bin 1 .. Bin 24; without it, no "Bin Data" entry at all.                *)
(***************************************************************************)
C11_BinsIffConfigured ==
  (Returned("getData") /\ latestData # None) =>
    /\ ("Bin Data" \in DOMAIN latestData.d) <=> config.UseBinData
    /\ config.UseBinData =>
         /\ DOMAIN latestData.d["Bin Data"] = 1..24
         /\ \A n \in 1..24 : latestData.d["Bin Data"][n] \in 0..65535
    /\ DOMAIN latestData.d \ {"Bin Data"} = ScalarKeys

\* getData has returned a measurement of a call that retried, with the bins on
C11_Witness ==
  /\ Returned("getData") /\ latestData # None /\ config.UseBinData
  /\ loopCount > 1

(***************************************************************************)
(* C12: round trip of the bins.  For the frames whose payload holds the    *)
(* bin values b0..b23 (values of 0..65535, the two ends among them) as     *)
(* LSB, MSB at payload bytes 2i and 2i+1, each payload byte following a    *)
(* filler byte in a wire frame of 172 bytes, decoding with the bins on     *)
(* gives Bin (i+1) = b_i for every i, as integers.                         *)
(***************************************************************************)
C12_BinsRoundTrip ==
  ( /\ probe.fn = "decode" /\ config.UseBinData
    /\ Len(probe.raw) = 172
    /\ \A i \in 0..23 :
         /\ probe.bins[i + 1] \in 0..65535
         /\ probe.raw[4 * i + 2] = probe.bins[i + 1] % 256
         /\ probe.raw[4 * i + 4] = probe.bins[i + 1] \div 256 )
  => /\ probe.out # None
     /\ \A i \in 0..23 : probe.out.d["Bin Data"][i + 1] = probe.bins[i + 1]

\* a frame with b0 = 0x1234, b3 = 65535 and b4 = 0 was decoded, its fillers 0xFF
C12_Witness ==
  /\ probe.fn = "decode" /\ config.UseBinData
  /\ probe.raw[1] = 255
  /\ probe.bins[1] = 4660 /\ probe.bins[4] = 65535 /\ probe.bins[5] = 0
  /\ probe.out.d["Bin Data"][1] = 4660 /\ probe.out.d["Bin Data"][4] = 65535

\* Byte k (0-based) of the payload carried by the decoded wire frame
C13_PayloadByte(k) == probe.raw[2 * k + 2]
\* The little-endian 16-bit value at payload bytes k, k + 1
C13_Word(k) == C13_PayloadByte(k) + 256 * C13_PayloadByte(k + 1)

(***************************************************************************)
(* C13: the 16-bit fields are LSB + 256 * MSB of fixed payload bytes, a    *)
(* value of 0..65535: the sample period is bytes 52-53 over 100, the flow  *)
(* rate bytes 54-55 over 100, the temperature is converted from bytes      *)
(* 56-57 and the humidity from bytes 58-59, whatever the other bytes of    *)
(* the payload hold.                                                       *)
(***************************************************************************)
C13_WordsAtFixedOffsets ==
  probe.fn = "decode" =>
    /\ probe.out # None
    /\ \A k \in {52, 54, 56, 58} : C13_Word(k) \in 0..65535
    /\ probe.out.d["Period (s)"] = [num |-> C13_Word(52), den |-> 100]
    /\ probe.out.d["Flowrate (ml/s)"] = [num |-> C13_Word(54), den |-> 100]
    /\ probe.out.d["Temp (C)"] = convert_T(C13_Word(56))
    /\ probe.out.d["RH (%)"] = convert_RH(C13_Word(58))

\* a frame whose byte 55 was set to 0xFF and whose bytes 53 and 56 are not:
\* the flow rate alone has the high byte 0xFF
C13_Witness ==
  /\ probe.fn = "decode"
  /\ C13_PayloadByte(55) = 255 /\ C13_PayloadByte(53) # 255 /\ C13_PayloadByte(57) # 255
  /\ probe.out.d["Flowrate (ml/s)"].num >= 65280
  /\ probe.out.d["Period (s)"].num < 65280

(***************************************************************************)
(* C14: the conversions at their ends and in between, in thousandths: raw  *)
(* temperature 0 gives -45.000 and 65535 gives 130.000; raw humidity 0     *)
(* gives 0.000 and 65535 gives 100.000; every raw value of 0..65535 gives  *)
(* a temperature in -45..130 and a humidity in 0..100; and from a raw      *)
(* value to the next one neither conversion decreases.                     *)
(***************************************************************************)
C14_InBounds ==
  probe.fn = "convert" =>
    /\ probe.raw \in 0..65535
    /\ probe.T >= -45000 /\ probe.T <= 130000
    /\ probe.RH >= 0 /\ probe.RH <= 100000
    /\ probe.raw = 0 => probe.T = -45000 /\ probe.RH = 0
    /\ probe.raw = 65535 => probe.T = 130000 /\ probe.RH = 100000

C14_NonDecreasing ==
  (probe.fn = "convert" /\ probe'.fn = "convert") =>
    /\ probe'.raw = probe.raw + 1
    /\ probe'.T >= probe.T
    /\ probe'.RH >= probe.RH

C14_ConversionBoundaries == []C14_InBounds /\ [][C14_NonDecreasing]_vars

\* the conversions were called on 65535
C14_Witness ==
  probe.fn = "convert" /\ probe.raw = 65535 /\ probe.T = 130000 /\ probe.RH = 100000

(***************************************************************************)
(* C15: decoding does not depend on the history.  When getData decodes a   *)
(* payload equal to the one latestData was decoded from by an earlier      *)
(* call (the configuration is the same all along), the measurement it      *)
(* stores equals the one latestData holds, field by field, whatever        *)
(* happened in between: failed attempts, peripheral calls that changed     *)
(* isFanOn or isLaserOn, other measurements before.                        *)
(***************************************************************************)
C15_SamePayloadStep ==
  ( /\ op = "getData" /\ pc = "g_decode" /\ pc' = "idle"
    /\ latestData # None
    /\ Strip(opcHistBytesRaw) = decodedFrom )
  => /\ latestData' # None
     /\ \A key \in DOMAIN latestData.d :
          key \in DOMAIN latestData'.d /\ latestData'.d[key] = latestData.d[key]

C15_SamePayloadSameMeasurement == [][C15_SamePayloadStep]_vars

\* a call that started with a measurement, retried, and stored an equal
\* one, bins included, with the fan flag changed since the driver was made
C15_Witness ==
  /\ Returned("getData") /\ loopCount > 1
  /\ prevData # None /\ latestData = prevData
  /\ "Bin Data" \in DOMAIN latestData.d
  /\ ~isFanOn

(***************************************************************************)
(* C17: end to end.  With the bins off, a getData call whose first         *)
(* histogram request was answered with the ready pattern and whose read    *)
(* returned a wire frame of 172 bytes has returned, once the frame was     *)
(* judged, with a measurement (not None) without bin data, after that one  *)
(* request, no cooldown and no initConnection; it has not gone back for    *)
(* another attempt.                                                        *)
(***************************************************************************)
C17_FirstFrameReturned ==
  ( /\ op = "getData" /\ ~config.UseBinData
    /\ loopCount = 1 /\ opcReturn = ReadyPattern
    /\ Len(opcHistBytesRaw) = 172
    /\ pc # "g_decode" )
  => /\ Returned("getData")
     /\ latestData # None
     /\ "Bin Data" \notin DOMAIN latestData.d
     /\ DOMAIN latestData.d = ScalarKeys
     /\ nReq = 1 /\ nFill = 86 /\ nFrame = 1
     /\ nCool = 0 /\ nInit = 0

\* that call has returned
C17_Witness ==
  /\ Returned("getData") /\ ~config.UseBinData
  /\ nReq = 1 /\ opcReturn = ReadyPattern /\ Len(opcHistBytesRaw) = 172
  /\ latestData # None

\* The thousandths Python gives for round(x, 3) and for round(x / 3, 3),
\* x the single FloatPatterns[i]: 0.0625 is a tie and goes to 0.062, the
\* single nearest to 0.0005 lies above it and goes to 0.001
C18_Thousandths ==
  << 1230, 4560, 7890, 62, 188, -2500, 1, 12346, 0, 100000 >>
C18_ThousandthsOfThird ==
  << 410, 1520, 2630, 21, 62, -833, 0, 4115, 0, 33333 >>
\* The four payload bytes from offset k on, of the decoded wire frame
C18_BytesAt(k) == [n \in 1..4 |-> probe.raw[2 * (k + n - 1) + 2]]

(***************************************************************************)
(* C18: PM1, PM2.5 and PM10 are the little-endian IEEE-754 singles at      *)
(* payload bytes 60-63, 64-67 and 68-71 rounded to 3 decimals, and the     *)
(* time of flight is the single at bytes 48-51 divided by 3 and rounded to *)
(* 3 decimals: for each single of known value found at one of these        *)
(* offsets, the field holds the thousandths Python's round gives.  The     *)
(* frame with 1.23, 4.56, 7.89 decodes to 1.23, 4.56, 7.89.                *)
(***************************************************************************)
C18_FloatsRounded ==
  probe.fn = "decode" =>
    /\ probe.out # None
    /\ \A i \in 1..10 :
         /\ C18_BytesAt(60) = FloatPatterns[i]
              => probe.out.d["PM1 (ug/m-3)"].milli = C18_Thousandths[i]
         /\ C18_BytesAt(64) = FloatPatterns[i]
              => probe.out.d["PM2.5 (ug/m-3)"].milli = C18_Thousandths[i]
         /\ C18_BytesAt(68) = FloatPatterns[i]
              => probe.out.d["PM10 (ug/m-3)"].milli = C18_Thousandths[i]
         /\ C18_BytesAt(48) = FloatPatterns[i]
              => probe.out.d["MToF (us)"].milli = C18_ThousandthsOfThird[i]
    /\ ( /\ C18_BytesAt(60) = <<164, 112, 157, 63>>
         /\ C18_BytesAt(64) = <<133, 235, 145, 64>>
         /\ C18_BytesAt(68) = <<225, 122, 252, 64>> )
       => /\ probe.out.d["PM1 (ug/m-3)"].milli = 1230
          /\ probe.out.d["PM2.5 (ug/m-3)"].milli = 4560
          /\ probe.out.d["PM10 (ug/m-3)"].milli = 7890

\* the frame with 1.23, 4.56, 7.89 (and 0.0625 as time of flight) was decoded
C18_Witness ==
  /\ probe.fn = "decode"
  /\ C18_BytesAt(60) = <<164, 112, 157, 63>>
  /\ probe.out.d["PM1 (ug/m-3)"].milli = 1230
  /\ probe.out.d["PM2.5 (ug/m-3)"].milli = 4560
  /\ probe.out.d["PM10 (ug/m-3)"].milli = 7890
  /\ probe.out.d["MToF (us)"].milli = 21

(***************************************************************************)
(* C16: a write or read that raises ends the running method at once.  The  *)
(* step that raises assigns nothing: isFanOn, isLaserOn and latestData     *)
(* stay as they are, no request, command, filler, frame read, cooldown or  *)
(* initConnection is added; and as long as the failed channel call is the  *)
(* last thing that happened, the driver is back at its caller with the     *)
(* exception: it has not gone on, retried, or started a cooldown.          *)
(***************************************************************************)
C16_AbortedAtCaller ==
  lastEv = ErrEv => (pc = "idle" /\ exc = "SerialException")

C16_RaisingStep ==
  lastEv' = ErrEv =>
    /\ pc \in ChannelPcs
    /\ op \in {"initConnection", "fanPower", "laserPower", "getData"}
    /\ isFanOn' = isFanOn /\ isLaserOn' = isLaserOn /\ latestData' = latestData
    /\ counters' = counters

C16_ChannelErrorAborts == []C16_AbortedAtCaller /\ [][C16_RaisingStep]_vars

\* the channel failed inside the initConnection that getData runs on its
\* hard-failure path: getData ended there, latestData still holds the
\* measurement of the call before
C16_Witness ==
  /\ lastEv = ErrEv /\ op = "getData" /\ exc = "SerialException"
  /\ nCool = 1 /\ nInit = 0
  /\ latestData # None /\ latestData = prevData

(***************************************************************************)
(* C19: a stored measurement is immutable: while a method other than       *)
(* getData runs, and after it has returned, latestData is what it was when *)
(* the method was entered.  (Stated as the claim has it; formatData pops   *)
(* "Bin Data" from latestData.)                                            *)
(***************************************************************************)
C19_StoredMeasurementImmutable ==
  (op \in {"formatData", "printOutput", "fanPower", "laserPower", "initConnection"}
     /\ prevData # None)
  => latestData = prevData

\* The cells of a line that were formatted from bin data or from bin_Nones
C20_BinCells(line) ==
  SelectSeq(line, LAMBDA c : c.kind \in {"bin", "binNone"})
\* The header line has bin headers
C20_HasBinHeaders(f) ==
  \E i \in 1..Len(f.fileHeaders) : f.fileHeaders[i].kind = "binHeader"

C20_RowsMatchHeader ==
  file.exists =>
    \A i \in 1..Len(file.rows) :
      Len(C20_BinCells(file.rows[i])) = IF C20_HasBinHeaders(file) THEN 24 ELSE 0

C20_SaveStep ==
  (opcData' # opcData \/ (file'.exists /\ file' # file)) =>
    LET binData == opcData'.d["Bin Data"] IN
    /\ (~file.exists /\ file'.exists) =>
         /\ C20_HasBinHeaders(file') <=> binData # None
         /\ Len(file'.rows) = 1
         /\ binData # None => C20_BinCells(file'.rows[1]) = binData.d
    /\ file.exists =>
         /\ file'.fileHeaders = file.fileHeaders
         /\ Len(file'.rows) = Len(file.rows) + 1
         /\ C20_HasBinHeaders(file) =>
              C20_BinCells(file'.rows[Len(file'.rows)]) =
                IF binData # None THEN binData.d
                ELSE [n \in 1..24 |-> [kind |-> "binNone", v |-> 0]]

(***************************************************************************)
(* C20: every row of the csv file agrees with its header on the bin        *)
(* columns: 24 of them when the header has bin headers, none when it has   *)
(* not.  A row appended under bin headers carries the measured bins, or    *)
(* 24 None when the formatted data has no bin data; a new file gets bin    *)
(* headers, and its first row the measured bins, exactly when the          *)
(* formatted data has bin data.                                            *)
(***************************************************************************)
C20_BinColumnsConsistent == []C20_RowsMatchHeader /\ [][C20_SaveStep]_vars

\* a file with bin headers whose second row has 24 None, and a third row
\* the measured bins
C20_Witness ==
  /\ file.exists /\ C20_HasBinHeaders(file) /\ Len(file.rows) = 3
  /\ \A n \in 1..24 : C20_BinCells(file.rows[2])[n].kind = "binNone"
  /\ \A n \in 1..24 : C20_BinCells(file.rows[3])[n].kind = "bin"

\* The minutes of the claim's intervals
C21_Step ==
  [i \in {"1m", "5m", "10m", "15m", "30m", "1h"} |->
     CASE i = "1m" -> 1 [] i = "5m" -> 5 [] i = "10m" -> 10
       [] i = "15m" -> 15 [] i = "30m" -> 30 [] i = "1h" -> 60]
\* The minute number m (counted from hour 0) is aligned to a step
C21_Aligned(m, step) == (m % 60) % step = 0

(***************************************************************************)
(* C21: for each interval of 1m, 5m, 10m, 15m, 30m, 1h and every clock     *)
(* time, first_measurement_time returns a time with seconds zero, in a     *)
(* minute after the current one whose minute-of-hour is a multiple of the  *)
(* interval (minute 0 of the next hour included), and no such minute lies  *)
(* between the current minute and it; next_measurement_time called on a    *)
(* time within an aligned minute returns the start of the minute exactly   *)
(* one interval later, which is aligned too.                               *)
(***************************************************************************)
C21_AlignedSchedule ==
  (probe.fn \in {"first_measurement_time", "next_measurement_time"}
     /\ probe.timeInterval \in DOMAIN C21_Step)
  => LET step == C21_Step[probe.timeInterval]
         minute == probe.currentTime \div 60
     IN /\ probe.out % 60 = 0
        /\ probe.fn = "first_measurement_time" =>
             /\ probe.out \div 60 > minute
             /\ C21_Aligned(probe.out \div 60, step)
             /\ \A m \in (minute + 1)..(probe.out \div 60 - 1) : ~C21_Aligned(m, step)
        /\ (probe.fn = "next_measurement_time" /\ C21_Aligned(minute, step)) =>
             /\ probe.out = (minute + step) * 60
             /\ C21_Aligned(probe.out \div 60, step)

\* first_measurement_time("15m", 01:45:30) gave 02:00:00
C21_Witness ==
  /\ probe.fn = "first_measurement_time" /\ probe.timeInterval = "15m"
  /\ probe.currentTime = 3600 + 45 * 60 + 30
  /\ probe.out = 7200

\* One step of a peripheral method after its ready reply, by position
C22_StepAfterReady ==
  /\ (pc = "p_check" /\ opcReturn = ReadyPattern) =>
       pc' = "p_cmd" /\ lastEv' = SleepEv(wait)
  /\ pc = "p_cmd" =>
       /\ pc' = "p_ack"
       /\ lastEv' = <<"write", <<97, CommandCode(op, status)>>, 2>>
  /\ pc = "p_ack" =>
       /\ pc' = "p_settle"
       /\ lastEv'[1] = "read" /\ lastEv'[3] = 2
  /\ pc = "p_settle" =>
       pc' = "p_set" /\ lastEv' = SleepEv(settleSleep)
  /\ pc = "p_set" =>
       /\ pc' = "idle" /\ lastEv' = lastEv
       /\ Flag(op)' = status
  /\ pc \in {"p_cmd", "p_ack", "p_settle", "p_set"} =>
       /\ nReq' = nReq /\ nCool' = nCool /\ status' = status /\ op' = op
       /\ nCmd' = IF pc = "p_cmd" THEN 1 ELSE nCmd

(***************************************************************************)
(* C22: after a ready reply fanPower and laserPower do, in this order and  *)
(* each once: the short wait, the write of the 2 bytes 0x61 and the code   *)
(* (0x03 fan on, 0x02 fan off, 0x07 laser on, 0x06 laser off), a read of 2 *)
(* bytes, the settle wait, the assignment of the requested value to the    *)
(* flag, the return.  The step after the read of 2 bytes is the settle     *)
(* wait whatever was read, a short or an empty answer included.            *)
(***************************************************************************)
C22_CommandSequence ==
  [][ (op \in Peripherals /\ exc = "none") => C22_StepAfterReady ]_vars

\* laserPower(False) wrote 0x61 0x06 and read an empty acknowledgement
C22_Witness ==
  /\ op = "laserPower" /\ ~status /\ pc = "p_settle"
  /\ lastEv = ReadEv(2, <<>>) /\ nCmd = 1

\* The filler probe on the wire: 0x61 0x45
C23_Filler == <<"write", <<97, 69>>, 2>>
\* The inter-byte wait
C23_Wait == SleepEv(wait)

(***************************************************************************)
(* C23: in every attempt of getData the filler probes follow a ready       *)
(* answer to that attempt's request: no filler is written and no payload   *)
(* is read while the request is unanswered or was answered not-ready; from *)
(* the ready answer on, the k-th filler 0x61 0x45 is written after k-1     *)
(* fillers each followed by the inter-byte wait, with no read in between;  *)
(* the one read of up to 172 bytes comes after the wait of the 86th        *)
(* filler, and nothing more is written or read in the attempt.             *)
(***************************************************************************)
C23_FillerAfterReady ==
  (op = "getData" /\ exc = "none") =>
    /\ (nFill > 0 \/ nFrame > 0) => opcReturn = ReadyPattern
    /\ pc \in {"g_read", "g_check"} => nFill = 0 /\ nFrame = 0
    /\ (pc = "g_top" /\ opcReturn # ReadyPattern) => nFill = 0 /\ nFrame = 0
    /\ pc = "g_fill" =>
         /\ nFill = histByte /\ nFill < 86 /\ nFrame = 0
         /\ lastEv = (IF nFill = 0 THEN ReadEv(2, ReadyPattern) ELSE C23_Wait)
    /\ pc = "g_fwait" =>
         /\ nFill = histByte + 1 /\ nFill <= 86 /\ nFrame = 0
         /\ lastEv = C23_Filler
    /\ pc = "g_frame" => nFill = 86 /\ nFrame = 0 /\ lastEv = C23_Wait
    /\ pc = "g_decode" =>
         /\ nFill = 86 /\ nFrame = 1
         /\ lastEv[1] = "read" /\ lastEv[3] = 172 /\ Len(lastEv[2]) <= 172
    /\ (pc \in {"g_top", "idle", "g_none"} \cup InitPcs /\ opcReturn = ReadyPattern) =>
         nFill = 86 /\ nFrame = 1

\* The second attempt of a call whose first request was answered not-ready
\* has written its 86 fillers and read its frame
C23_Witness ==
  /\ op = "getData" /\ pc = "g_decode" /\ nReq = 2 /\ loopCount = 2
  /\ nFill = 86 /\ nFrame = 1

(***************************************************************************)
(* C24: the stripping keeps the wire bytes at the even 1-indexed           *)
(* positions, in their order: for a wire frame of n bytes, 0 <= n <= 172,  *)
(* the payload has n \div 2 bytes, byte k of it (0-indexed) is wire byte   *)
(* 2k + 1 (0-indexed), and it has 86 bytes if and only if n = 172.         *)
(***************************************************************************)
C24_EvenPositionsKept ==
  (probe.fn = "strip") =>
    LET n == Len(probe.raw)
        payload == probe.out
    IN /\ n \in 0..172
       /\ Len(payload) = n \div 2
       /\ \A k \in 0..(Len(payload) - 1) : payload[k + 1] = probe.raw[(2 * k + 1) + 1]
       /\ Len(payload) = 86 <=> n = 172

\* A read that came one byte short was stripped to 85 bytes
C24_Witness ==
  /\ probe.fn = "strip" /\ Len(probe.raw) = 171 /\ Len(probe.out) = 85
  /\ probe.raw[1] # adOPC

\* The positions of initConnection in the order of its statements, with the
\* channel call or wait each one makes
C25_Order ==
  <<"ic_boot", "ic_w1", "ic_r1", "ic_s1", "ic_w2", "ic_r2", "ic_s2", "ic_w3", "ic_r3", "ic_s3">>
C25_Does(i, ev) ==
  CASE i \in {1, 4, 7, 10} -> ev[1] = "sleep"
    [] i = 2 -> ev = <<"write", <<90, 1>>, 2>>
    [] i = 3 -> ev[1] = "read" /\ ev[3] = 3 /\ Len(ev[2]) <= 3
    [] i = 5 -> ev = <<"write", <<90, 3>>, 2>>
    [] i = 6 -> ev[1] = "read" /\ ev[3] = 9 /\ Len(ev[2]) <= 9
    [] i = 8 -> ev = <<"write", <<90, 2, 146, 7>>, 4>>
    [] i = 9 -> ev[1] = "read" /\ ev[3] = 2 /\ Len(ev[2]) <= 2
C25_Step ==
  \A i \in 1..10 :
    pc = C25_Order[i] =>
      \/ /\ C25_Does(i, lastEv')
         /\ pc' = (IF i < 10 THEN C25_Order[i + 1]
                   ELSE IF caller = "getData" THEN "g_none" ELSE "idle")
         /\ exc' = "none"
      \/ /\ i \in {2, 3, 5, 6, 8, 9}
         /\ lastEv' = ErrEv /\ exc' = "SerialException" /\ pc' = "idle"

(***************************************************************************)
(* C25: initConnection is one fixed sequence: wait, write 0x5A 0x01, read  *)
(* up to 3, wait, write 0x5A 0x03, read up to 9, wait, write               *)
(* 0x5A 0x02 0x92 0x07, read up to 2, wait, return.  Each step is followed *)
(* by the next one whatever a read returned (an empty answer included), so *)
(* there are three writes and three reads, alternating, and no step is     *)
(* taken twice; the only other way out of a step is the channel raising    *)
(* in a write or a read.  A call of initConnection always comes to its     *)
(* end: it returns, or the channel has raised.                             *)
(***************************************************************************)
C25_FixedSequence ==
  /\ [][C25_Step]_vars
  /\ (op = "initConnection" /\ pc = "ic_boot")
       ~> (op = "initConnection" /\ pc = "idle"
             /\ (nInit = 1 \/ exc = "SerialException"))

\* The third read of initConnection returned nothing and the call went on
C25_Witness ==
  /\ op = "initConnection" /\ pc = "ic_s3" /\ lastEv = ReadEv(2, <<>>)
  /\ exc = "none"

(***************************************************************************)
(* C26: in getData a wait separates every two histogram requests: when the *)
(* call is about to write a request that is not its first, the last thing  *)
(* it did was to sleep, after a not-ready answer as well as after a        *)
(* malformed frame.  (Stated as the claim has it; the code sleeps after a  *)
(* malformed frame only.)                                                  *)
(***************************************************************************)
C26_WaitBetweenRequests ==
  (op = "getData" /\ exc = "none" /\ pc = "g_top" /\ loopCount >= 1)
  => lastEv[1] = "sleep"

\* The 0-indexed positions at which two payloads of one length differ
C27_Diff(a, b) == { k \in 0..(Len(a) - 1) : a[k + 1] # b[k + 1] }

(***************************************************************************)
(* C27: what getData stores for a frame does not depend on the bytes it    *)
(* does not read.  Of two payloads of one length, both are accepted or     *)
(* both are not, and they are accepted when the length is 86; two 86-byte  *)
(* payloads that differ only in bytes 72..85 give the same measurement;    *)
(* with "Use Bin Data" off, two that differ only in bytes 0..47 give the   *)
(* same measurement.                                                       *)
(***************************************************************************)
C27_UnreadBytesIgnored ==
  (probe.fn = "pair") =>
    LET diff == C27_Diff(probe.a, probe.b)
    IN /\ (probe.outA # None) <=> (probe.outB # None)
       /\ (probe.outA # None) <=> (Len(probe.a) = 86)
       /\ (Len(probe.a) = 86 /\ diff \subseteq 72..85) => probe.outA = probe.outB
       /\ (Len(probe.a) = 86 /\ ~config.UseBinData /\ diff \subseteq 0..47)
            => probe.outA = probe.outB

\* Two accepted payloads that differ in all of bytes 72..85, decoded with
\* the bins on
C27_Witness ==
  /\ probe.fn = "pair" /\ Len(probe.a) = 86 /\ config.UseBinData
  /\ C27_Diff(probe.a, probe.b) = 72..85
  /\ probe.outA # None /\ probe.outA = probe.outB

\* Two payloads that differ in the bins only, decoded with the bins off
C27_WitnessBinsOff ==
  /\ probe.fn = "pair" /\ Len(probe.a) = 86 /\ ~config.UseBinData
  /\ C27_Diff(probe.a, probe.b) = 0..47
  /\ probe.outA # None /\ probe.outA = probe.outB

\* What a step of the method m (its call included) leaves as it was
C28_Frame(m) ==
  CASE m = "fanPower" -> isLaserOn' = isLaserOn /\ latestData' = latestData
    [] m = "laserPower" -> isFanOn' = isFanOn /\ latestData' = latestData
    [] m = "initConnection" ->
         isFanOn' = isFanOn /\ isLaserOn' = isLaserOn /\ latestData' = latestData
    [] m = "getData" -> isFanOn' = isFanOn /\ isLaserOn' = isLaserOn
    [] OTHER -> TRUE

(***************************************************************************)
(* C28: no step of fanPower changes isLaserOn or latestData; no step of    *)
(* laserPower changes isFanOn or latestData; no step of initConnection     *)
(* changes isFanOn, isLaserOn or latestData; no step of getData changes    *)
(* isFanOn or isLaserOn, the steps of the initConnection it runs on its    *)
(* hard-failure path included.                                             *)
(***************************************************************************)
C28_FrameConditions ==
  [][ /\ C28_Frame(op')
      /\ (op = "getData" /\ pc \in InitPcs) => C28_Frame("initConnection") ]_vars

\* getData has returned from its hard-failure path with the fan off and the
\* laser on, as they were
C28_Witness ==
  /\ Returned("getData") /\ nCool = 1 /\ nInit = 1
  /\ ~isFanOn /\ isLaserOn /\ latestData = None /\ prevData # None

C29_WitnessAfterFrames ==
  /\ Returned("getData") /\ loopCount = 21 /\ ~allNotReady
  /\ Len(opcHistBytesRaw) = 172 /\ latestData # None /\ nCool = 0

(***************************************************************************)
(* C30: when the driver has been constructed and no method of it has been  *)
(* called yet, isFanOn and isLaserOn are true, latestData is None, and     *)
(* nothing has been written to or read from the channel: no channel event, *)
(* no request, command, filler or frame counted.                           *)
(***************************************************************************)
C30_AfterConstruction ==
  (op = "none") =>
    /\ isFanOn /\ isLaserOn /\ latestData = None
    /\ lastEv = <<"none", <<>>, 0>>
    /\ nReq = 0 /\ nCmd = 0 /\ nFill = 0 /\ nFrame = 0 /\ nInit = 0
    /\ pc = "idle" /\ exc = "none"

\* The driver as constructed with "Use Bin Data" set
C30_Witness ==
  /\ op = "none" /\ pc = "idle" /\ config.UseBinData
  /\ isFanOn /\ isLaserOn /\ latestData = None /\ lastEv = NoEv

(***************************************************************************)
(* C31: the sleep of the main loop is never longer than the measurement    *)
(* interval, whatever the time the pass of the loop took, a pass that ends *)
(* after the next measurement time included.  (Stated as the claim has it; *)
(* the code sleeps for timedelta.seconds of a negative difference.)        *)
(***************************************************************************)
C31_SleepAtMostInterval ==
  (probe.fn = "main_loop" /\ probe.timeInterval \in DOMAIN C21_Step)
  => probe.out <= C21_Step[probe.timeInterval] * 60

\* The same for the passes that end before the next measurement time
C31_SleepInTime ==
  ( /\ probe.fn = "main_loop" /\ probe.timeInterval \in DOMAIN C21_Step
    /\ probe.currentTime + probe.elapsed
         <= next_measurement_time(probe.timeInterval, probe.currentTime) )
  => /\ probe.out <= C21_Step[probe.timeInterval] * 60
     /\ probe.currentTime + probe.elapsed + probe.out
          = next_measurement_time(probe.timeInterval, probe.currentTime)

====
